---- MODULE Spec2Model ----
(***************************************************************************)
(* A model of src/blackjack.py: Card, Deck, Hand, BlackjackGame.play and   *)
(* the session loop of main().  The program is single threaded; the state  *)
(* is the game object's fields plus the position of the control flow (pc) *)
(* at the points where play()/main() read an input or go round a loop.     *)
(***************************************************************************)
EXTENDS Integers, Sequences, FiniteSets, TLC

VARIABLES
    deck,           \* game.deck.cards: sequence of cards, last element is the top
    player_hand,    \* game.player_hand.cards
    dealer_hand,    \* game.dealer_hand.cards
    balance,        \* game.balance
    bet,            \* game.bet
    pc,             \* position in play()/main()
    bet_input,      \* play(): the line last read at the bet prompt, stripped
    choice,         \* play(): the line last read at the hit/stand prompt, lowered
    continue_game,  \* main(): value returned by the last play()
    play_again,     \* main(): the line last read at the play-again prompt, lowered
    outcome,        \* which settlement branch of play() the current round took
    start_balance,  \* history: balance printed at the start of the current round
    rounds,         \* history: number of calls of play() so far
    dealt           \* history: number of calls of deck.deal() so far

vars == <<deck, player_hand, dealer_hand, balance, bet, pc, bet_input, choice,
          continue_game, play_again, outcome, start_balance, rounds, dealt>>

----------------------------------------------------------------------------
(* Bounds of the model *)

\* the player asks for another round only while fewer than MaxDealt cards
\* have been dealt in the session
MaxDealt == 7
\* random.shuffle is drawn from cuts at 0..MaxCut followed by 0..MaxRiffles riffles
MaxCut == 8
MaxRiffles == 1
\* Hand on its own: add_card is applied at most MaxHandCards times
MaxHandCards == 4

----------------------------------------------------------------------------
(* Card *)

suits == <<"Hearts", "Diamonds", "Clubs", "Spades">>
ranks == <<"2", "3", "4", "5", "6", "7", "8", "9", "10",
           "Jack", "Queen", "King", "Ace">>

Card(suit, rank) == [suit |-> suit, rank |-> rank]

\* int(self.rank) for the numeric ranks: the position in ranks plus one
IntOfRank(rank) == (CHOOSE i \in 1..Len(ranks) : ranks[i] = rank) + 1

BlackjackTarget == 21
DealerStandsAt == 17
FaceValue == 10
AceHigh == 11
AceDemotion == 10

\* Card.value
CardValue(card) ==
    IF card.rank \in {"Jack", "Queen", "King"} THEN FaceValue
    ELSE IF card.rank = "Ace" THEN AceHigh
    ELSE IntOfRank(card.rank)

----------------------------------------------------------------------------
(* Deck *)

\* Deck.__init__ stepping through two suits only: every card of them twice
NewDeckTwoSuits ==
    [i \in 1..(Len(suits) * Len(ranks)) |->
        Card(suits[(((i - 1) \div Len(ranks)) % 2) + 1], ranks[((i - 1) % Len(ranks)) + 1])]

\* Deck.__init__: suit-major, rank-minor
NewDeck ==
    [i \in 1..(Len(suits) * Len(ranks)) |->
        Card(suits[((i - 1) \div Len(ranks)) + 1], ranks[((i - 1) % Len(ranks)) + 1])]

\* One permutation random.shuffle can produce: cut the sequence at c
Cut(s, c) ==
    IF Len(s) = 0 THEN s
    ELSE LET k == c % Len(s)
         IN  SubSeq(s, k + 1, Len(s)) \o SubSeq(s, 1, k)

\* Another: interleave the first half with the second half
Riffle(s) ==
    LET h == Len(s) \div 2
    IN  [i \in 1..Len(s) |->
            IF i > 2 * h THEN s[i]
            ELSE IF i % 2 = 1 THEN s[(i + 1) \div 2]
            ELSE s[h + (i \div 2)]]

RECURSIVE Riffles(_, _)
Riffles(s, n) == IF n = 0 THEN s ELSE Riffles(Riffle(s), n - 1)

\* The outcomes of random.shuffle tried by the model: sh = <<cut, riffles>>
ShuffleInputs == (0..MaxCut) \X (0..MaxRiffles)

\* Deck.shuffle with the random permutation sh
Shuffle(s, sh) == Riffles(Cut(s, sh[1]), sh[2])

\* The outcomes of the shuffle inside deal() that n deals from cards can consult:
\* none while the deck does not run out
RefillInputs(cards, n) == IF Len(cards) < n THEN ShuffleInputs ELSE {<<0, 0>>}

\* Deck.deal rebuilding the deck one card early, when a single card is left
DealFromEarlyRefill(cards, sh) == IF Len(cards) <= 1 THEN Shuffle(NewDeck, sh) ELSE cards

\* Deck.deal: the cards deal() pops from (rebuilt and shuffled when empty)
DealFrom(cards, sh) == IF Len(cards) = 0 THEN Shuffle(NewDeck, sh) ELSE cards

\* Deck.deal returning the first card of the sequence while the last is removed
DealtCardFirst(cards, sh) == DealFrom(cards, sh)[1]

\* Deck.deal: the returned card (list.pop() takes the last element)
DealtCard(cards, sh) == LET d == DealFrom(cards, sh) IN d[Len(d)]

\* Deck.deal reading the last card without removing it (cards[-1] for pop())
AfterDealKeepsCard(cards, sh) == DealFrom(cards, sh)

\* Deck.deal: the cards left in the deck
AfterDeal(cards, sh) == LET d == DealFrom(cards, sh) IN SubSeq(d, 1, Len(d) - 1)

----------------------------------------------------------------------------
(* Hand *)

\* Hand.add_card
add_card(hand, card) == Append(hand, card)

RECURSIVE SumValues(_)
SumValues(hand) ==
    IF hand = <<>> THEN 0
    ELSE CardValue(hand[Len(hand)]) + SumValues(SubSeq(hand, 1, Len(hand) - 1))

CountAces(hand) == Cardinality({i \in 1..Len(hand) : hand[i].rank = "Ace"})

\* a variant of AdjustForAces that demotes one Ace at most
AdjustForAcesOnce(value, aces) ==
    IF value > BlackjackTarget /\ aces > 0 THEN value - AceDemotion ELSE value

\* the loop `while value > 21 and aces > 0`
RECURSIVE AdjustForAces(_, _)
AdjustForAces(value, aces) ==
    IF value > BlackjackTarget /\ aces > 0
    THEN AdjustForAces(value - AceDemotion, aces - 1)
    ELSE value

\* Hand.get_value
get_value(hand) == AdjustForAces(SumValues(hand), CountAces(hand))

----------------------------------------------------------------------------
(* Inputs *)

DefaultBalance == 1000
DefaultBet == 100

\* Lines typed at the bet prompt, after .strip().  A decimal literal is
\* sign * num / den; the other kinds are the texts float() treats specially.
BetToken(kind, sign, num, den) == [kind |-> kind, sign |-> sign, num |-> num, den |-> den]
BetInputs ==
    { BetToken("empty", 1, 0, 1),        \* ""       : the default bet
      BetToken("text", 1, 0, 1),         \* "abc"    : float() raises ValueError
      BetToken("nan", 1, 0, 1),          \* "nan"    : int(nan) raises ValueError
      BetToken("inf", 1, 0, 1),          \* "inf"    : int(inf) raises OverflowError
      BetToken("number", 1, 0, 1),       \* "0"
      BetToken("number", -1, 5, 1),      \* "-5"
      BetToken("number", 1, 1, 2),       \* "0.5"
      BetToken("number", 1, 3, 1),       \* "3"
      BetToken("number", 1, 951, 1),     \* "951"
      BetToken("number", 1, 2001, 2),    \* "1000.5"
      BetToken("number", 1, 2000, 1) }   \* "2000"

\* no line read yet in this call
NoBetInput == BetToken("none", 1, 0, 1)
NoLine == "-"

\* Lines typed at the hit/stand prompt and at the play-again prompt
ChoiceInputs == {"h", "H", "s", "S", "x", ""}
AgainInputs == {"y", "Y", "n", ""}

\* str.lower on the inputs above
Lower(str) ==
    IF str = "H" THEN "h" ELSE IF str = "S" THEN "s" ELSE IF str = "Y" THEN "y" ELSE str

\* int(float(bet_input)): the exception raised, or the integer (truncated towards zero)
IntOfFloat(tok) ==
    IF tok.kind \in {"text", "nan"} THEN [raised |-> "ValueError", value |-> 0]
    ELSE IF tok.kind = "inf" THEN [raised |-> "OverflowError", value |-> 0]
    ELSE [raised |-> "none", value |-> tok.sign * (tok.num \div tok.den)]

\* play(), lines 119-127: what the input does to self.bet
ParseBet(tok) ==
    IF tok.kind = "empty" THEN [raised |-> "none", value |-> DefaultBet]
    ELSE IntOfFloat(tok)

\* a variant of BetAccepted without the check against the balance
BetAcceptedAnyAmount(amount, bal) == ~(amount <= 0)

\* play(), lines 129-136: the bet passes the checks
BetAccepted(amount, bal) == ~(amount <= 0) /\ ~(amount > bal)

\* a variant of BlackjackWinnings that rounds every half up
BlackjackWinningsHalfUp(amount) == ((3 * amount) + 1) \div 2

\* a variant of BlackjackWinnings that drops the half: int(self.bet * 1.5)
BlackjackWinningsTruncated(amount) == (3 * amount) \div 2

\* round(self.bet * 1.5): Python 3 rounds a half to the even neighbour
BlackjackWinnings(amount) ==
    LET t == 3 * amount
        q == t \div 2
    IN  IF t % 2 = 0 THEN q
        ELSE IF q % 2 = 0 THEN q ELSE q + 1

----------------------------------------------------------------------------
(* BlackjackGame.play: the decisions *)

\* a variant of NaturalOutcome that does not look at the dealer's hand
NaturalOutcomePlayerOnly(player_blackjack, dealer_blackjack) ==
    IF player_blackjack THEN "PLAYER_BLACKJACK" ELSE "NONE"

\* play() lines 158-176: the branch taken on the hands as dealt
NaturalOutcome(player_blackjack, dealer_blackjack) ==
    IF player_blackjack /\ dealer_blackjack THEN "PUSH_BLACKJACK"
    ELSE IF player_blackjack THEN "PLAYER_BLACKJACK"
    ELSE IF dealer_blackjack THEN "DEALER_BLACKJACK"
    ELSE "NONE"

\* a variant of AfterHit that checks for blackjack again after a hit to 21
AfterHitRecheck(value) ==
    IF value > BlackjackTarget THEN "returned"
    ELSE IF value = BlackjackTarget THEN "dealt"
    ELSE "player"

\* a variant of AfterHit that keeps prompting at 21
AfterHitAskAt21(value) ==
    IF value > BlackjackTarget THEN "returned" ELSE "player"

\* a variant of AfterHit that does not return on a bust
AfterHitNoReturn(value) ==
    IF value >= BlackjackTarget THEN "dealer" ELSE "player"

\* a variant of AfterHit that asks the player again whatever the value
AfterHitAsksAgain(value) == "player"

\* play() lines 187-193: where play() goes after a hit that made the hand worth value
AfterHit(value) ==
    IF value > BlackjackTarget THEN "returned"
    ELSE IF value = BlackjackTarget THEN "dealer"
    ELSE "player"

\* a variant of DealerHits in which the dealer also draws on 17
DealerHitsOn17(hand) == get_value(hand) <= DealerStandsAt

\* play() line 204: the condition of the dealer's loop
DealerHits(hand) == get_value(hand) < DealerStandsAt

\* a variant of CompareOutcome without the dealer-bust branch
CompareOutcomeNoBust(player_value, dealer_value) ==
    IF player_value > dealer_value THEN "PLAYER_WIN"
    ELSE IF player_value < dealer_value THEN "DEALER_WIN"
    ELSE "PUSH"

\* play() lines 214-228: the branch taken by the final comparison
CompareOutcome(player_value, dealer_value) ==
    IF dealer_value > BlackjackTarget THEN "PLAYER_WIN"
    ELSE IF player_value > dealer_value THEN "PLAYER_WIN"
    ELSE IF player_value < dealer_value THEN "DEALER_WIN"
    ELSE "PUSH"

\* play() lines 166, 173, 188, 215, 219, 223: what each branch adds to self.balance
BalanceChange(result, amount) ==
    CASE result = "PLAYER_BLACKJACK" -> BlackjackWinnings(amount)
      [] result = "PLAYER_WIN" -> amount
      [] result \in {"DEALER_BLACKJACK", "PLAYER_BUST", "DEALER_WIN"} -> 0 - amount
      [] OTHER -> 0

\* main() leaving the hands of the finished round in place
NextRoundHandKept(hand) == hand

\* main() lines 253-254: the hand a party holds in the next round
NextRoundHand(hand) == <<>>

----------------------------------------------------------------------------
(* BlackjackGame and main *)

\* BlackjackGame.__init__(balance), called by main() with the default balance;
\* the constructor takes any balance
InitialBalances == {DefaultBalance, 0}

Init ==
    /\ deck = NewDeck
    /\ player_hand = <<>>
    /\ dealer_hand = <<>>
    /\ balance \in InitialBalances
    /\ bet = 0
    /\ pc = "play"
    /\ bet_input = NoBetInput
    /\ choice = NoLine
    /\ continue_game = TRUE
    /\ play_again = NoLine
    /\ outcome = "NONE"
    /\ start_balance = balance
    /\ rounds = 0
    /\ dealt = 0

\* play() returns result to main() line 238
Return(result) ==
    /\ pc' = "returned"
    /\ continue_game' = result

\* main() line 238 and play() lines 105-114: enter a round
StartRound ==
    /\ pc = "play"
    /\ rounds' = rounds + 1
    /\ start_balance' = balance
    /\ outcome' = "NONE"
    /\ bet_input' = NoBetInput
    /\ choice' = NoLine
    /\ IF balance <= 0
       THEN Return(FALSE)
       ELSE /\ pc' = "bet"
            /\ UNCHANGED continue_game
    /\ UNCHANGED <<deck, player_hand, dealer_hand, balance, bet, play_again, dealt>>

\* play() lines 117-138: one pass of the bet loop on the input tok
BetInput(tok) ==
    /\ pc = "bet"
    /\ bet_input' = tok
    /\ LET r == ParseBet(tok)
       IN  IF r.raised = "ValueError"
           THEN UNCHANGED <<bet, pc>>
           ELSE IF r.raised = "OverflowError"
           THEN /\ pc' = "error"
                /\ UNCHANGED bet
           ELSE /\ bet' = r.value
                /\ pc' = IF BetAccepted(r.value, balance) THEN "deal" ELSE "bet"
    /\ UNCHANGED <<deck, player_hand, dealer_hand, balance, choice, continue_game,
                   play_again, outcome, start_balance, rounds, dealt>>

\* play() lines 141-145: shuffle, then deal player, dealer, player, dealer
ShuffleAndDeal(sh, refill) ==
    /\ pc = "deal"
    /\ LET d0 == Shuffle(deck, sh)
           c1 == DealtCard(d0, refill)
           d1 == AfterDeal(d0, refill)
           c2 == DealtCard(d1, refill)
           d2 == AfterDeal(d1, refill)
           c3 == DealtCard(d2, refill)
           d3 == AfterDeal(d2, refill)
           c4 == DealtCard(d3, refill)
           d4 == AfterDeal(d3, refill)
       IN  /\ player_hand' = add_card(add_card(player_hand, c1), c3)
           /\ dealer_hand' = add_card(add_card(dealer_hand, c2), c4)
           /\ deck' = d4
    /\ pc' = "dealt"
    /\ dealt' = dealt + 4
    /\ UNCHANGED <<balance, bet, bet_input, choice, continue_game, play_again,
                   outcome, start_balance, rounds>>

\* play() lines 155-176: natural blackjack check on the hands as dealt
CheckBlackjack ==
    /\ pc = "dealt"
    /\ LET player_blackjack == get_value(player_hand) = BlackjackTarget
           dealer_blackjack == get_value(dealer_hand) = BlackjackTarget
           result == NaturalOutcome(player_blackjack, dealer_blackjack)
       IN  IF result # "NONE"
           THEN /\ balance' = balance + BalanceChange(result, bet)
                /\ outcome' = result
                /\ Return(TRUE)
           ELSE /\ pc' = "player"
                /\ UNCHANGED <<balance, outcome, continue_game>>
    /\ UNCHANGED <<deck, player_hand, dealer_hand, bet, bet_input, choice, play_again,
                   start_balance, rounds, dealt>>

\* play() lines 179-197: one pass of the player's loop on the line typed
PlayerChoice(input, refill) ==
    /\ pc = "player"
    /\ choice' = Lower(input)
    /\ IF choice' = "h"
       THEN LET hand == add_card(player_hand, DealtCard(deck, refill))
                goto == AfterHit(get_value(hand))
            IN  /\ player_hand' = hand
                /\ deck' = AfterDeal(deck, refill)
                /\ dealt' = dealt + 1
                /\ IF get_value(hand) > BlackjackTarget
                   THEN /\ balance' = balance + BalanceChange("PLAYER_BUST", bet)
                        /\ outcome' = "PLAYER_BUST"
                   ELSE UNCHANGED <<balance, outcome>>
                /\ IF goto = "returned"
                   THEN Return(TRUE)
                   ELSE /\ pc' = goto
                        /\ UNCHANGED continue_game
       ELSE /\ pc' = IF choice' = "s" THEN "dealer" ELSE "player"
            /\ UNCHANGED <<deck, player_hand, balance, outcome, continue_game, dealt>>
    /\ UNCHANGED <<dealer_hand, bet, bet_input, play_again, start_balance, rounds>>

\* play() lines 204-207: one pass of the dealer's loop
DealerHit(refill) ==
    /\ pc = "dealer"
    /\ DealerHits(dealer_hand)
    /\ dealer_hand' = add_card(dealer_hand, DealtCard(deck, refill))
    /\ deck' = AfterDeal(deck, refill)
    /\ dealt' = dealt + 1
    /\ UNCHANGED <<player_hand, balance, bet, pc, bet_input, choice, continue_game,
                   play_again, outcome, start_balance, rounds>>

\* play() lines 209-230: the dealer's loop has ended, compare the hands
DetermineWinner ==
    /\ pc = "dealer"
    /\ ~DealerHits(dealer_hand)
    /\ LET player_value == get_value(player_hand)
           dealer_value == get_value(dealer_hand)
           result == CompareOutcome(player_value, dealer_value)
       IN  /\ balance' = balance + BalanceChange(result, bet)
           /\ outcome' = result
    /\ Return(TRUE)
    /\ UNCHANGED <<deck, player_hand, dealer_hand, bet, bet_input, choice, play_again,
                   start_balance, rounds, dealt>>

\* MainCheck with the balance test of line 242 left out
MainCheckIgnoresBalance ==
    /\ pc = "returned"
    /\ pc' = IF ~continue_game THEN "over" ELSE "again"
    /\ UNCHANGED <<deck, player_hand, dealer_hand, balance, bet, bet_input, choice,
                   continue_game, play_again, outcome, start_balance, rounds, dealt>>

\* main() lines 240-245: end the session or go on to the play-again prompt
MainCheck ==
    /\ pc = "returned"
    /\ pc' = IF ~continue_game \/ balance <= 0 THEN "over" ELSE "again"
    /\ UNCHANGED <<deck, player_hand, dealer_hand, balance, bet, bet_input, choice,
                   continue_game, play_again, outcome, start_balance, rounds, dealt>>

\* main() lines 247-254: the play-again prompt
PlayAgain(input) ==
    /\ pc = "again"
    /\ play_again' = Lower(input)
    /\ IF Lower(input) # "y"
       THEN /\ pc' = "over"
            /\ UNCHANGED <<player_hand, dealer_hand>>
       ELSE /\ dealt < MaxDealt
            /\ player_hand' = NextRoundHand(player_hand)
            /\ dealer_hand' = NextRoundHand(dealer_hand)
            /\ pc' = "play"
    /\ UNCHANGED <<deck, balance, bet, bet_input, choice, continue_game, outcome,
                   start_balance, rounds, dealt>>

Next ==
    \/ StartRound
    \/ \E tok \in BetInputs : BetInput(tok)
    \/ \E sh \in ShuffleInputs, refill \in RefillInputs(deck, 4) :
            ShuffleAndDeal(sh, refill)
    \/ CheckBlackjack
    \/ \E input \in ChoiceInputs, refill \in RefillInputs(deck, 1) :
            PlayerChoice(input, refill)
    \/ \E refill \in RefillInputs(deck, 1) : DealerHit(refill)
    \/ DetermineWinner
    \/ MainCheck
    \/ \E input \in AgainInputs : PlayAgain(input)

Spec == Init /\ [][Next]_vars

----------------------------------------------------------------------------
(* Hand on its own: any cards may be added to a hand *)

\* the cards offered to add_card: one of each rank (a hand may hold equal cards)
HandCards == {Card(suits[1], ranks[i]) : i \in 1..Len(ranks)}

\* Hand.__init__
HandInit ==
    /\ deck = NewDeck
    /\ player_hand = <<>>
    /\ dealer_hand = <<>>
    /\ balance = DefaultBalance
    /\ bet = 0
    /\ pc = "hand"
    /\ bet_input = NoBetInput
    /\ choice = NoLine
    /\ continue_game = TRUE
    /\ play_again = NoLine
    /\ outcome = "NONE"
    /\ start_balance = balance
    /\ rounds = 0
    /\ dealt = 0

\* Hand.add_card on the hand under test
HandAddCard(card) ==
    /\ pc = "hand"
    /\ Len(player_hand) < MaxHandCards
    /\ player_hand' = add_card(player_hand, card)
    /\ UNCHANGED <<deck, dealer_hand, balance, bet, pc, bet_input, choice,
                   continue_game, play_again, outcome, start_balance, rounds, dealt>>

HandNext == \E card \in HandCards : HandAddCard(card)

SpecHand == HandInit /\ [][HandNext]_vars

----------------------------------------------------------------------------
(* A long session: small bets and few shuffles, played until the deck has
   run out and rebuilt itself *)

\* "y" at the play-again prompt is tried while fewer cards than this were dealt
MaxLongDealt == 56

\* Lines typed in the long session
LongBetInputs == {BetToken("text", 1, 0, 1), BetToken("number", 1, 3, 1)}
LongChoiceInputs == {"h", "s", "x"}
LongAgainInputs == {"y", "n"}

\* The outcome of random.shuffle tried at the start of a round of the long
\* session (one riffle), and the outcomes tried when deal() rebuilds the deck
LongShuffleInputs == {<<0, 1>>}
LongRefillShuffles == {<<0, 1>>, <<1, 1>>, <<5, 0>>}

\* The outcomes of the shuffle inside deal() that n deals from cards can consult
LongRefillInputs(cards, n) == IF Len(cards) < n THEN LongRefillShuffles ELSE {<<0, 0>>}

\* main() lines 247-254: the play-again prompt of the long session
LongPlayAgain(input) ==
    /\ pc = "again"
    /\ play_again' = Lower(input)
    /\ IF Lower(input) # "y"
       THEN /\ pc' = "over"
            /\ UNCHANGED <<player_hand, dealer_hand>>
       ELSE /\ dealt < MaxLongDealt
            /\ player_hand' = NextRoundHand(player_hand)
            /\ dealer_hand' = NextRoundHand(dealer_hand)
            /\ pc' = "play"
    /\ UNCHANGED <<deck, balance, bet, bet_input, choice, continue_game, outcome,
                   start_balance, rounds, dealt>>

\* the bet prompt answered with a bet that is accepted
LongValidBet == \E tok \in LongBetInputs : BetInput(tok) /\ pc' = "deal"

\* the hit/stand prompt answered with h or s
LongValidChoice ==
    \E input \in LongChoiceInputs, refill \in LongRefillInputs(deck, 1) :
        PlayerChoice(input, refill) /\ choice' \in {"h", "s"}

LongShuffleAndDeal ==
    \E sh \in LongShuffleInputs, refill \in LongRefillInputs(deck, 4) :
        ShuffleAndDeal(sh, refill)

LongDealerHit == \E refill \in LongRefillInputs(deck, 1) : DealerHit(refill)

LongNext ==
    \/ StartRound
    \/ \E tok \in LongBetInputs : BetInput(tok)
    \/ LongShuffleAndDeal
    \/ CheckBlackjack
    \/ \E input \in LongChoiceInputs, refill \in LongRefillInputs(deck, 1) :
            PlayerChoice(input, refill)
    \/ LongDealerHit
    \/ DetermineWinner
    \/ MainCheck
    \/ \E input \in LongAgainInputs : LongPlayAgain(input)

SpecLong == Init /\ [][LongNext]_vars

\* a step of a loop of play() that moves the round on: a prompt answered with
\* a valid line, or a statement of play() after the initial deal
LongProgress ==
    \/ LongValidBet
    \/ CheckBlackjack
    \/ LongValidChoice
    \/ LongDealerHit
    \/ DetermineWinner

\* play() runs on between its prompts, and each prompt is eventually answered
\* with a valid line (pc enables at most one of the steps at a time)
LongFairness == WF_vars(LongProgress)

SpecLongFair == SpecLong /\ LongFairness

-----------------------------------------------------------------------------
(* The blackjack payout on its own: any bet the balance covers *)

\* the largest bet tried
MaxBet == 200

\* play() line 164 reached with a bet of 1..MaxBet placed from the default balance
PayInit ==
    /\ deck = NewDeck
    /\ player_hand = <<>>
    /\ dealer_hand = <<>>
    /\ balance = DefaultBalance
    /\ bet \in 1..MaxBet
    /\ pc = "pay"
    /\ bet_input = NoBetInput
    /\ choice = NoLine
    /\ continue_game = TRUE
    /\ play_again = NoLine
    /\ outcome = "NONE"
    /\ start_balance = balance
    /\ rounds = 0
    /\ dealt = 0

\* play() lines 164-169: the player's natural blackjack is paid
PayBlackjack ==
    /\ pc = "pay"
    /\ BetAccepted(bet, balance)
    /\ outcome' = NaturalOutcome(TRUE, FALSE)
    /\ balance' = balance + BalanceChange(outcome', bet)
    /\ pc' = "paid"
    /\ UNCHANGED <<deck, player_hand, dealer_hand, bet, bet_input, choice,
                   continue_game, play_again, start_balance, rounds, dealt>>

PayNext == PayBlackjack

SpecPay == PayInit /\ [][PayNext]_vars

-----------------------------------------------------------------------------
(* Properties *)

\* play() has returned, or the session has ended after it
Settled == {"returned", "again", "over"}

\* the integer nearest to 3 * amount / 2, a half going to the even neighbour
NearestToThreeHalves(amount) ==
    CHOOSE n \in ((3 * amount) \div 2)..(((3 * amount) \div 2) + 1) :
        LET twice == (2 * n) - (3 * amount)
        IN  \/ twice = 0
            \/ (twice \in {-1, 1} /\ n % 2 = 0)

\* C1: once a round with bet b has completed, the balance differs from the balance
\* at the start of the round by round(1.5 * b) after PLAYER_BLACKJACK, by b after
\* PLAYER_WIN, by -b after DEALER_WIN, PLAYER_BUST and DEALER_BLACKJACK, and by 0
\* after a push (both natural blackjacks, or equal final values).
C1_SettlementByOutcome ==
    (pc \in Settled /\ outcome # "NONE") =>
        /\ outcome \in {"PLAYER_BLACKJACK", "PLAYER_WIN", "DEALER_WIN", "PLAYER_BUST",
                        "DEALER_BLACKJACK", "PUSH", "PUSH_BLACKJACK"}
        /\ outcome = "PLAYER_BLACKJACK" =>
               balance - start_balance = NearestToThreeHalves(bet)
        /\ outcome = "PLAYER_WIN" =>
               /\ balance - start_balance = bet
               /\ \/ get_value(player_hand) > get_value(dealer_hand)
                  \/ get_value(dealer_hand) > BlackjackTarget
        /\ outcome \in {"DEALER_WIN", "PLAYER_BUST", "DEALER_BLACKJACK"} =>
               balance - start_balance = 0 - bet
        /\ outcome = "PUSH_BLACKJACK" =>
               /\ balance = start_balance
               /\ get_value(player_hand) = BlackjackTarget
               /\ get_value(dealer_hand) = BlackjackTarget
        /\ outcome = "PUSH" =>
               /\ balance = start_balance
               /\ get_value(player_hand) = get_value(dealer_hand)

\* a round settled as a player blackjack on an odd bet whose 3:2 payout ends in a half
C1_Witness ==
    /\ pc = "returned"
    /\ outcome = "PLAYER_BLACKJACK"
    /\ bet = 3
    /\ balance = start_balance + 4

\* the ranks of the cards of a hand, in order
RanksOf(hand) == [i \in 1..Len(hand) |-> hand[i].rank]

\* the value the rules give a card that is not an Ace
PlainValue(rank) ==
    CASE rank = "2" -> 2 [] rank = "3" -> 3 [] rank = "4" -> 4 [] rank = "5" -> 5
      [] rank = "6" -> 6 [] rank = "7" -> 7 [] rank = "8" -> 8 [] rank = "9" -> 9
      [] rank = "10" -> 10 [] rank \in {"Jack", "Queen", "King"} -> 10

RECURSIVE HardTotal(_)
\* the total of a hand with every Ace counted as 1
HardTotal(hand) ==
    IF hand = <<>> THEN 0
    ELSE (IF Head(hand).rank = "Ace" THEN 1 ELSE PlainValue(Head(hand).rank))
         + HardTotal(Tail(hand))

\* the totals of a hand over every way of counting each Ace as 1 or 11
Totals(hand) ==
    LET aces == {i \in 1..Len(hand) : hand[i].rank = "Ace"}
    IN  {HardTotal(hand) + (10 * Cardinality(high)) : high \in SUBSET aces}

\* the largest total not above 21, or the all-Aces-low total when there is none
BestTotal(hand) ==
    LET fitting == {t \in Totals(hand) : t <= 21}
    IN  IF fitting = {} THEN HardTotal(hand)
        ELSE CHOOSE t \in fitting : \A u \in fitting : u <= t

\* C2: for every hand, get_value is the largest total not exceeding 21 obtainable by
\* counting each Ace as 1 or 11 and every other card at its base value, or the total
\* with every Ace as 1 if there is none; [Ace, Ace, 9] and [Ace, Ace, Ace, 8] give 21,
\* [King, Queen] gives 20 and [Ace, King] gives 21.
C2_GetValueIsBestTotal ==
    /\ get_value(player_hand) = BestTotal(player_hand)
    /\ RanksOf(player_hand) = <<"Ace", "Ace", "9">> => get_value(player_hand) = 21
    /\ RanksOf(player_hand) = <<"Ace", "Ace", "Ace", "8">> => get_value(player_hand) = 21
    /\ RanksOf(player_hand) = <<"King", "Queen">> => get_value(player_hand) = 20
    /\ RanksOf(player_hand) = <<"Ace", "King">> => get_value(player_hand) = 21

\* a hand in which two of three Aces are demoted
C2_Witness ==
    /\ pc = "hand"
    /\ RanksOf(player_hand) = <<"Ace", "Ace", "Ace", "8">>
    /\ get_value(player_hand) = 21

\* the outcomes decided by the final comparison after the dealer's turn
Ordinary == {"PLAYER_WIN", "DEALER_WIN", "PUSH"}

\* C3: in every round of a session a blackjack outcome (PLAYER_BLACKJACK, DEALER_BLACKJACK
\* or the double-blackjack push) is declared only for a hand of exactly two cards worth
\* 21; a player at 21 with three or more cards is not paid 3:2 and is settled by the
\* ordinary comparison after the dealer's turn.
C3_BlackjackOnlyOnTwoCards ==
    pc \in Settled =>
        /\ outcome \in {"PLAYER_BLACKJACK", "PUSH_BLACKJACK"} =>
               (Len(player_hand) = 2 /\ get_value(player_hand) = 21)
        /\ outcome \in {"DEALER_BLACKJACK", "PUSH_BLACKJACK"} =>
               (Len(dealer_hand) = 2 /\ get_value(dealer_hand) = 21)
        /\ (outcome # "NONE" /\ Len(player_hand) >= 3 /\ get_value(player_hand) = 21) =>
               /\ outcome \in {"PLAYER_WIN", "PUSH"}
               /\ get_value(dealer_hand) >= 17
               /\ outcome = "PLAYER_WIN" => balance - start_balance = bet
               /\ outcome = "PUSH" => balance - start_balance = 0

\* in a second round, the player hit to 21 with three or more cards and won the bet
C3_Witness ==
    /\ pc = "returned"
    /\ rounds = 2
    /\ Len(player_hand) >= 3
    /\ get_value(player_hand) = 21
    /\ outcome = "PLAYER_WIN"
    /\ balance = start_balance + bet

C4_Step ==
    /\ pc = "deal" =>
           \E sh \in ShuffleInputs :
               LET d == Shuffle(deck, sh)
                   n == Len(d)
               IN  /\ n >= 4
                   /\ player_hand' = <<d[n], d[n - 2]>>
                   /\ dealer_hand' = <<d[n - 1], d[n - 3]>>
                   /\ deck' = SubSeq(d, 1, n - 4)
                   /\ pc' = "dealt"
    /\ pc = "dealt" =>
           LET p21 == get_value(player_hand) = 21
               d21 == get_value(dealer_hand) = 21
           IN  /\ Len(player_hand) = 2
               /\ Len(dealer_hand) = 2
               /\ UNCHANGED <<deck, player_hand, dealer_hand>>
               /\ (p21 \/ d21) <=> pc' = "returned"
               /\ (p21 /\ d21) => (outcome' = "PUSH_BLACKJACK" /\ balance' = balance)
               /\ (p21 /\ ~d21) => outcome' = "PLAYER_BLACKJACK"
               /\ (~p21 /\ d21) => outcome' = "DEALER_BLACKJACK"
               /\ (~p21 /\ ~d21) =>
                      (pc' = "player" /\ outcome' = "NONE" /\ balance' = balance)

\* C4: the initial deal gives two cards each, alternately player, dealer, player,
\* dealer; then the round settles at once, with no decision and no further card, if and
\* only if a hand is worth 21: both is a push, the player alone PLAYER_BLACKJACK, the
\* dealer alone DEALER_BLACKJACK; with neither the player's turn begins.
C4_NaturalCheck == [][C4_Step]_vars

\* a round settled on the deal by the dealer's blackjack alone
C4_Witness ==
    /\ pc = "returned"
    /\ outcome = "DEALER_BLACKJACK"
    /\ Len(player_hand) = 2
    /\ Len(dealer_hand) = 2
    /\ get_value(player_hand) < 21
    /\ choice = NoLine

C5_Step ==
    pc = "player" =>
        /\ UNCHANGED <<dealer_hand, bet>>
        /\ choice' = "h" =>
               /\ Len(player_hand') = Len(player_hand) + 1
               /\ SubSeq(player_hand', 1, Len(player_hand)) = player_hand
               /\ Len(deck) > 0 =>
                      /\ deck' = SubSeq(deck, 1, Len(deck) - 1)
                      /\ player_hand'[Len(player_hand')] = deck[Len(deck)]
               /\ get_value(player_hand') > 21 =>
                      /\ pc' = "returned"
                      /\ outcome' = "PLAYER_BUST"
                      /\ balance' = balance - bet
               /\ get_value(player_hand') = 21 =>
                      (pc' = "dealer" /\ UNCHANGED <<balance, outcome>>)
               /\ get_value(player_hand') < 21 =>
                      (pc' = "player" /\ UNCHANGED <<balance, outcome>>)
        /\ choice' = "s" =>
               (pc' = "dealer" /\ UNCHANGED <<deck, player_hand, balance, outcome>>)
        /\ choice' \notin {"h", "s"} =>
               UNCHANGED <<deck, player_hand, balance, outcome, pc>>

C5_Bust ==
    (pc \in Settled /\ outcome = "PLAYER_BUST") =>
        /\ Len(dealer_hand) = 2
        /\ get_value(player_hand) > 21
        /\ balance = start_balance - bet

\* C5: in the player's turn a hit deals one card to the player and none to the dealer;
\* above 21 the round ends at once as PLAYER_BUST with the bet subtracted and the dealer
\* is dealt no card; at 21 the dealer's turn begins without another decision; below 21
\* another decision is requested.  A stand deals nothing and begins the dealer's turn.
\* Any other input changes no state and is prompted again.
C5_PlayerTurn == [][C5_Step /\ C5_Bust']_vars

\* the player hit twice and bust while the dealer still holds the two cards dealt
C5_Witness ==
    /\ pc = "returned"
    /\ outcome = "PLAYER_BUST"
    /\ choice = "h"
    /\ Len(player_hand) >= 4
    /\ Len(dealer_hand) = 2
    /\ get_value(dealer_hand) < 17

C6_Step ==
    /\ (pc = "dealer" /\ get_value(dealer_hand) < 17) =>
           /\ pc' = "dealer"
           /\ Len(dealer_hand') = Len(dealer_hand) + 1
           /\ SubSeq(dealer_hand', 1, Len(dealer_hand)) = dealer_hand
    /\ (pc = "dealer" /\ get_value(dealer_hand) >= 17) =>
           /\ pc' # "dealer"
           /\ dealer_hand' = dealer_hand
           /\ deck' = deck
    /\ (Len(dealer_hand) >= 2 /\ Len(dealer_hand') > Len(dealer_hand)) =>
           (pc = "dealer" /\ get_value(dealer_hand) < 17)

\* C6: in the dealer's turn the dealer is dealt a card exactly while the hand is worth
\* less than 17: a hand below 17 receives another card before the turn can end, a hand
\* at 17 or more receives none, and the turn ends only at 17 or more.
C6_DealerRule == [][C6_Step]_vars

\* the dealer stood on exactly 17 after drawing to it
C6_Witness ==
    /\ pc = "returned"
    /\ outcome \in Ordinary
    /\ Len(dealer_hand) >= 3
    /\ get_value(dealer_hand) = 17

\* the result the rules give the final comparison of two hand values
ComparisonResult(player_value, dealer_value) ==
    CASE dealer_value > 21 -> "PLAYER_WIN"
      [] dealer_value <= 21 /\ player_value > dealer_value -> "PLAYER_WIN"
      [] dealer_value <= 21 /\ player_value < dealer_value -> "DEALER_WIN"
      [] dealer_value <= 21 /\ player_value = dealer_value -> "PUSH"

C7_Step ==
    (pc = "dealer" /\ pc' # "dealer") =>
        /\ pc' = "returned"
        /\ UNCHANGED <<player_hand, dealer_hand>>
        /\ outcome' = ComparisonResult(get_value(player_hand), get_value(dealer_hand))

\* C7: when a round reaches the final comparison after the dealer's turn, the outcome
\* depends on the two final hand values only: dealer above 21 is PLAYER_WIN; otherwise
\* the higher value wins (PLAYER_WIN or DEALER_WIN) and equal values are a PUSH.
C7_FinalComparison == [][C7_Step]_vars

\* the dealer bust with a value above the player's, and the player won
C7_Witness ==
    /\ pc = "returned"
    /\ outcome = "PLAYER_WIN"
    /\ get_value(dealer_hand) > 21
    /\ get_value(player_hand) < get_value(dealer_hand)

\* the order of the positions within one round
PhaseRank(p) ==
    CASE p = "play" -> 0 [] p = "bet" -> 1 [] p = "deal" -> 2 [] p = "dealt" -> 3
      [] p = "player" -> 4 [] p = "dealer" -> 5 [] p = "returned" -> 6
      [] p = "again" -> 7 [] p = "over" -> 8 [] p = "error" -> 9

\* the step that starts the next round
NextRoundStarts == pc = "again" /\ pc' = "play"

C8_Step ==
    /\ ~NextRoundStarts => PhaseRank(pc') >= PhaseRank(pc)
    /\ (Len(dealer_hand) >= 3 \/ pc \in Settled) =>
           /\ pc' # "player"
           /\ \/ player_hand' = player_hand
              \/ NextRoundStarts /\ player_hand' = <<>>
    /\ balance' # balance =>
           /\ pc \in {"dealt", "player", "dealer"}
           /\ pc' = "returned"
           /\ balance = start_balance
    /\ pc \in Settled =>
           /\ UNCHANGED <<deck, balance>>
           /\ \/ UNCHANGED <<player_hand, dealer_hand>>
              \/ NextRoundStarts /\ player_hand' = <<>> /\ dealer_hand' = <<>>

\* C8: within a round the phases only move forward (dealt, player's turn, dealer's
\* turn, settled): once the dealer holds a third card or the round has settled the
\* player is neither dealt a card nor asked again; the balance changes at most once per
\* round, at settlement; after settlement no card is dealt and no hand changes until
\* the next round starts.
C8_PhasesForward == [][C8_Step]_vars

\* a second round is starting after a round in which the dealer drew and the bet was lost
C8_Witness ==
    /\ pc = "play"
    /\ rounds = 1
    /\ outcome = "DEALER_WIN"
    /\ dealt >= 5
    /\ balance = start_balance - bet
    /\ player_hand = <<>>
    /\ dealer_hand = <<>>

C9_Placed == pc \in {"deal", "dealt"} => (bet \in Nat /\ 0 < bet /\ bet <= balance)

C9_Step ==
    /\ (pc = "bet" /\ bet_input'.kind = "empty") =>
           /\ bet' = 100
           /\ pc' = IF 100 <= balance THEN "deal" ELSE "bet"
    /\ pc = "deal" =>
           /\ Len(player_hand') = Len(player_hand) + 2
           /\ UNCHANGED <<bet, balance>>

\* C9: whenever a bet has been placed and the cards are dealt, the bet is a positive
\* integer not above the balance; an empty input is a bet of 100 under the same check,
\* so it is rejected when the balance is below 100.
C9_BetWithinBalance == [][C9_Step /\ C9_Placed']_vars

\* the default bet was refused because the balance is below it
C9_Witness ==
    /\ pc = "bet"
    /\ bet_input.kind = "empty"
    /\ bet = 100
    /\ 0 < balance
    /\ balance < 100

\* a line at the bet prompt that is no valid bet on balance bal: not a number, or an
\* amount (fractional and infinite ones included) that is not positive or above bal
InvalidBetLine(tok, bal) ==
    \/ tok.kind \in {"text", "nan", "inf"}
    \/ /\ tok.kind = "number"
       /\ \/ tok.sign * tok.num <= 0
          \/ tok.sign * tok.num > bal * tok.den

\* C10: every invalid bet input is rejected and prompted again: no error leaves the
\* round, no card is dealt for it, and balance, deck and hands are unchanged.
C10_InvalidBetRejected ==
    [][(pc = "bet" /\ InvalidBetLine(bet_input', balance)) =>
           /\ pc' = "bet"
           /\ UNCHANGED <<balance, deck, player_hand, dealer_hand>>]_vars

\* ---------------------------------------------------------------------------
\* C11: the session loop.  A round started with balance <= 0 asks for no bet
\* and deals no card; after a round that leaves balance <= 0 the session ends
\* without the play-again prompt; after a round that leaves balance > 0 the
\* prompt is shown, the session ends exactly when the lowered answer is not
\* "y", and otherwise another round is started.
C11_Step ==
    /\ (pc = "play" /\ balance <= 0) =>
            /\ pc' = "returned"
            /\ ~continue_game'
            /\ UNCHANGED <<deck, player_hand, dealer_hand, balance, bet, dealt>>
    /\ (pc = "play" /\ balance > 0) => pc' = "bet"
    /\ (pc = "returned" /\ balance <= 0) =>
            /\ pc' = "over"
            /\ UNCHANGED play_again
    /\ (pc = "returned" /\ balance > 0) =>
            /\ continue_game
            /\ pc' = "again"
    /\ pc = "again" =>
            /\ balance > 0
            /\ play_again' \in {Lower(a) : a \in AgainInputs}
            /\ (play_again' # "y") <=> (pc' = "over")
            /\ (play_again' = "y") <=> (pc' = "play")
    /\ pc = "over" => pc' = "over"
    /\ pc' = "over" => pc \in {"returned", "again", "over"}

C11_SessionLoop == [][C11_Step]_vars

\* a session that ended without the play-again prompt after the round that
\* lost the whole balance
C11_Witness ==
    /\ pc = "over"
    /\ rounds >= 1
    /\ start_balance > 0
    /\ balance <= 0
    /\ play_again = NoLine

\* ---------------------------------------------------------------------------
\* C12 as stated: immediately before the initial deal of any round the deck
\* holds all 52 cards and both hands are empty.
C12_FreshDeckEveryRound ==
    pc = "deal" =>
        /\ Len(deck) = Len(NewDeck)
        /\ Len(player_hand) = 0
        /\ Len(dealer_hand) = 0

\* number of cards left in the deck after k calls of Deck.deal() since the
\* deck was built
DeckSizeAfter(k) ==
    IF k = 0 THEN Len(NewDeck) ELSE Len(NewDeck) - 1 - ((k - 1) % Len(NewDeck))

\* C12 amended: immediately before the initial deal of any round both hands
\* are empty; the first round starts with the deck as built (all 52 cards),
\* and every later round starts with the deck the earlier rounds left, which
\* holds 52 cards less the cards dealt since it was last full.
C12_FreshHandsSameDeck ==
    pc = "deal" =>
        /\ Len(player_hand) = 0
        /\ Len(dealer_hand) = 0
        /\ rounds = 1 => deck = NewDeck
        /\ Len(deck) = DeckSizeAfter(dealt)
        /\ rounds > 1 => dealt >= 4

\* a second round about to deal from the deck the first round left
C12_Witness ==
    /\ pc = "deal"
    /\ rounds = 2
    /\ Len(deck) < Len(NewDeck)
    /\ Len(player_hand) = 0
    /\ Len(dealer_hand) = 0

\* ---------------------------------------------------------------------------
\* C15 as stated: in every reachable state the number of cards in the deck
\* plus the cards in the two hands is a multiple of 52.
C15_CardsMultipleOf52 ==
    (Len(deck) + Len(player_hand) + Len(dealer_hand)) % Len(NewDeck) = 0

\* C15 amended: in every reachable state the number of cards in the deck plus
\* the number of cards dealt from it since construction is a multiple of 52;
\* the deck and the two hands together hold exactly 52 cards throughout the
\* first round, and in a later round fewer, by the cards of the hands that
\* were discarded (as long as no refill has happened).
C15_DeckPlusDealt ==
    /\ (Len(deck) + dealt) % Len(NewDeck) = 0
    /\ (rounds = 0 \/ (rounds = 1 /\ pc # "play")) =>
            Len(deck) + Len(player_hand) + Len(dealer_hand) = Len(NewDeck)
    /\ (rounds > 1 /\ dealt <= Len(NewDeck)) =>
            Len(deck) + Len(player_hand) + Len(dealer_hand) < Len(NewDeck)
    /\ dealt <= Len(NewDeck) =>
            Len(deck) + Len(player_hand) + Len(dealer_hand) <= Len(NewDeck)

\* a second round in play: the hands of the first round are gone
C15_Witness ==
    /\ rounds = 2
    /\ pc = "player"
    /\ Len(player_hand) >= 3
    /\ Len(deck) + Len(player_hand) + Len(dealer_hand) < Len(NewDeck)

\* ---------------------------------------------------------------------------
\* C17: every deal from a non-empty deck removes exactly the last card of the
\* deck's sequence and that card is the one appended to the receiving hand;
\* the initial deal takes the last four cards of the shuffled deck in the
\* order player, dealer, player, dealer; and no step moves a card from a hand
\* back to the deck.
CardsOf(s) == {s[i] : i \in 1..Len(s)}

C17_SingleDeal ==
    (dealt' = dealt + 1 /\ Len(deck) > 0) =>
        /\ Len(deck') = Len(deck) - 1
        /\ deck' = SubSeq(deck, 1, Len(deck) - 1)
        /\ \/ /\ player_hand' = Append(player_hand, deck[Len(deck)])
              /\ dealer_hand' = dealer_hand
           \/ /\ dealer_hand' = Append(dealer_hand, deck[Len(deck)])
              /\ player_hand' = player_hand

C17_InitialDeal ==
    (dealt' = dealt + 4 /\ Len(deck) >= 4) =>
        /\ Len(deck') = Len(deck) - 4
        /\ CardsOf(deck') \subseteq CardsOf(deck)
        /\ \E sh \in ShuffleInputs :
              LET s == Shuffle(deck, sh)
                  n == Len(deck)
              IN  /\ deck' = SubSeq(s, 1, n - 4)
                  /\ player_hand' = player_hand \o <<s[n], s[n - 2]>>
                  /\ dealer_hand' = dealer_hand \o <<s[n - 1], s[n - 3]>>

C17_NoReturn ==
    /\ dealt' \in {dealt, dealt + 1, dealt + 4}
    /\ dealt' = dealt => deck' = deck
    /\ Len(deck') > Len(deck) => Len(deck) < dealt' - dealt
    /\ (Len(player_hand') < Len(player_hand) \/ Len(dealer_hand') < Len(dealer_hand)) =>
            /\ deck' = deck
            /\ player_hand' = <<>>
            /\ dealer_hand' = <<>>

C17_DealTakesLastCard ==
    [][C17_SingleDeal /\ C17_InitialDeal /\ C17_NoReturn]_vars

\* the dealer has drawn a third card, the card that was last in the deck
C17_Witness ==
    /\ pc = "dealer"
    /\ Len(dealer_hand) = 3
    /\ Len(deck) = Len(NewDeck) - dealt
    /\ dealt >= 5

\* ---------------------------------------------------------------------------
\* C18: starting from a non-negative integer balance, the balance is a
\* non-negative integer in every reachable state; a placed bet never exceeds
\* the balance it is taken from, so no settlement takes the balance below 0.
C18_BalanceNonNegative ==
    /\ balance \in Nat
    /\ start_balance \in Nat
    /\ pc \in {"deal", "dealt", "player", "dealer"} => balance - bet >= 0
    /\ pc \in Settled => balance >= start_balance - bet

\* a round lost with the whole balance at stake: the balance is exactly 0
C18_Witness ==
    /\ pc = "returned"
    /\ outcome \in {"PLAYER_BUST", "DEALER_WIN", "DEALER_BLACKJACK"}
    /\ bet = start_balance
    /\ start_balance > 0
    /\ balance = 0

\* ---------------------------------------------------------------------------
\* C20: whenever the player is asked for a hit/stand decision the player's
\* hand is worth at most 20; whenever the final comparison is reached the
\* player's hand is worth at most 21 and the dealer's hand between 17 and 26.
ComparisonReached ==
    \/ pc = "dealer" /\ ~DealerHits(dealer_hand)
    \/ pc \in Settled /\ outcome \in Ordinary \ {"PLAYER_BUST"}

C20_ValueRanges ==
    /\ pc = "player" => get_value(player_hand) <= 20
    /\ ComparisonReached =>
            /\ get_value(player_hand) <= 21
            /\ get_value(dealer_hand) >= 17
            /\ get_value(dealer_hand) <= 26

\* the comparison reached with the dealer at the largest possible value
C20_Witness ==
    /\ pc = "returned"
    /\ outcome = "PLAYER_WIN"
    /\ get_value(dealer_hand) = 26
    /\ get_value(player_hand) <= 21

\* ---------------------------------------------------------------------------
\* C14: for every positive integer bet a player natural blackjack increases
\* the balance by the integer nearest to 1.5 * bet, the half case of an odd
\* bet going to the even neighbour (100 gives 150, 3 gives 4, 5 gives 8), so
\* the balance stays an integer.
C14_Gain == balance - start_balance

C14_BlackjackPayout ==
    pc = "paid" =>
        /\ outcome = "PLAYER_BLACKJACK"
        /\ balance \in Int
        /\ bet % 2 = 0 => 2 * C14_Gain = 3 * bet
        /\ bet % 2 = 1 =>
               /\ 2 * C14_Gain \in {(3 * bet) - 1, (3 * bet) + 1}
               /\ C14_Gain % 2 = 0
        /\ bet = 100 => C14_Gain = 150
        /\ bet = 3 => C14_Gain = 4
        /\ bet = 5 => C14_Gain = 8

\* a bet of 5 paid 8: the half of 7.5 went up to the even neighbour
C14_Witness ==
    /\ pc = "paid"
    /\ bet = 5
    /\ balance = start_balance + 8

\* ---------------------------------------------------------------------------
\* C13: Deck.deal never fails and never blocks.  Every step that deals k cards
\* hands over k cards; while the deck holds at least k cards it shrinks by k;
\* when it runs out, the full 52-card set is rebuilt and shuffled inside
\* deal(), so that a single deal from the empty deck leaves 51 distinct cards
\* and returns the one card of the 52 that is missing from them; no error
\* reaches the caller.
NoDuplicates(s) == Cardinality(CardsOf(s)) = Len(s)

C13_Step ==
    dealt' > dealt =>
        LET k == dealt' - dealt
            n == Len(deck)
            Received == {player_hand'[i] : i \in (Len(player_hand) + 1)..Len(player_hand')}
                          \cup {dealer_hand'[i] : i \in (Len(dealer_hand) + 1)..Len(dealer_hand')}
            Missing == CardsOf(NewDeck) \ CardsOf(deck')
        IN  /\ pc' # "error"
            /\ Len(player_hand') + Len(dealer_hand')
                   = Len(player_hand) + Len(dealer_hand) + k
            /\ n >= k =>
                   /\ Len(deck') = n - k
                   /\ CardsOf(deck') \cup Received = CardsOf(deck)
            /\ n < k =>
                   /\ Len(deck') = Len(NewDeck) - (k - n)
                   /\ NoDuplicates(deck')
                   /\ CardsOf(deck') \subseteq CardsOf(NewDeck)
                   /\ Cardinality(Missing) = k - n
                   /\ Missing \subseteq Received
            /\ (n = 0 /\ k = 1) =>
                   /\ Len(deck') = 51
                   /\ Cardinality(Received) = 1
                   /\ Received = Missing

C13_DealNeverFails == [][C13_Step]_vars

\* a hit or a dealer's draw has just taken a card from the rebuilt deck
C13_Witness ==
    /\ dealt = Len(NewDeck) + 1
    /\ Len(deck) = 51
    /\ pc \in {"player", "dealer", "returned"}
    /\ Len(player_hand) + Len(dealer_hand) >= 5

\* ---------------------------------------------------------------------------
\* C16: in a round in which deal() has not rebuilt the deck, the cards of the
\* deck and of the two hands are pairwise distinct; and in every reachable
\* state, refills included, the deck alone holds no card twice, only cards of
\* the 52-card set, and so at most 52 cards.

\* how often deal() has rebuilt the deck once k cards were dealt
RefillsAfter(k) == IF k = 0 THEN 0 ELSE (k - 1) \div Len(NewDeck)

\* the number of cards dealt before the current round (the hands hold exactly
\* the cards dealt in it)
DealtBeforeRound == dealt - Len(player_hand) - Len(dealer_hand)

NoRefillThisRound == RefillsAfter(dealt) = RefillsAfter(DealtBeforeRound)

C16_NoDuplicateCards ==
    /\ NoDuplicates(deck)
    /\ CardsOf(deck) \subseteq CardsOf(NewDeck)
    /\ Len(deck) <= 52
    /\ NoRefillThisRound => NoDuplicates(deck \o player_hand \o dealer_hand)

\* a round played wholly from the rebuilt deck, after the round of the refill
C16_Witness ==
    /\ dealt > Len(NewDeck) + 1
    /\ NoRefillThisRound
    /\ pc \in {"player", "dealer", "returned"}
    /\ Len(player_hand) >= 2
    /\ Len(dealer_hand) >= 2

\* ---------------------------------------------------------------------------
\* C19: every round terminates, whatever the order of the cards, once each
\* prompt is eventually answered with a valid line: the bet prompt leads to
\* the initial deal (straight-line code), and from the initial deal on the
\* round always reaches the return of play().  Each card added in the
\* player's loop or in the dealer's loop raises the hand's total with every
\* Ace counted as 1, although get_value may stay or fall; the player is asked
\* again only below 21 and the dealer draws only below 17, so both loops end
\* after finitely many cards, also when deal() rebuilds the deck.
AfterDealInRound == pc \in {"dealt", "player", "dealer"}

C19_Step ==
    /\ (pc = "player" /\ player_hand' # player_hand) =>
            /\ HardTotal(player_hand') > HardTotal(player_hand)
            /\ HardTotal(player_hand) <= 20
            /\ pc' = "player" => get_value(player_hand') <= 20
    /\ (pc = "dealer" /\ dealer_hand' # dealer_hand) =>
            /\ HardTotal(dealer_hand') > HardTotal(dealer_hand)
            /\ HardTotal(dealer_hand) <= 16
    /\ pc = "dealer" => pc' \in {"dealer", "returned"}

C19_RoundTerminates ==
    /\ (pc = "bet") ~> (pc = "deal")
    /\ AfterDealInRound ~> (pc = "returned")
    /\ [][C19_Step]_vars

\* a round that has ended although a hit on a soft hand lowered get_value and
\* deal() rebuilt the deck during the round
C19_Witness ==
    /\ pc = "returned"
    /\ ~NoRefillThisRound
    /\ Len(player_hand) >= 3
    /\ \E n \in 2..(Len(player_hand) - 1) :
          get_value(SubSeq(player_hand, 1, n + 1)) <= get_value(SubSeq(player_hand, 1, n))

====
